---- MODULE Spec2Model ----
(***************************************************************************)
(* Steam Scout: the sliding-window rate limiter                            *)
(* (server/middleware/rate-limiter.ts), the Steam aggregation and caching  *)
(* proxy (server/routes.ts, Clerk edition), the leads routes, the Clerk    *)
(* webhook, the client's analytics manager and the serverless adapter.     *)
(*                                                                         *)
(* SpecLimiter is the state machine of the rate-limit middleware and its   *)
(* module-level store (SpecShared, SpecQuota, SpecRetry and SpecUnswept    *)
(* are the same machine under other configurations); SpecProxy is the      *)
(* state machine of the Steam proxy routes and their TTL cache; SpecLeads, *)
(* SpecHooks, SpecAnalytics and SpecAdapter are those of the other parts.  *)
(* All run on the JavaScript event loop: every action is one synchronous   *)
(* section between two suspension points.                                  *)
(***************************************************************************)
EXTENDS Integers, Sequences, FiniteSets, TLC

VARIABLES
    now,              \* Date.now(), in milliseconds
    config,           \* the configuration each limiter instance closes over
    rateLimitStore,   \* rate-limiter.ts:34  Map<string, RateLimitEntry>
    nextEntry,        \* identity of the next RateLimitEntry object allocated
    lastSweep,        \* time of the last run of the cleanup timer, -1 = never
    nextReq,          \* number of the next request to reach a limiter
    reqs,             \* the requests whose res.json override is still to be called
    last,             \* what the middleware did with the request it saw last
    lastPop,          \* history: the last retraction, by whom and whose timestamp
    log,              \* history: per key, the requests whose timestamp a limiter
                      \* pushed and that were not retracted by their own response
    STEAM_CACHE,      \* routes.ts:426  Map<string, { data, timestamp }>
    calls,            \* the requests to the Steam proxy routes, in order of
                      \* arrival: where each handler is and what it answered
    gameResults,      \* routes.ts:578  results, as handed to the aggregation
    gameResponse,     \* routes.ts:620  response = { games, studios }, or null
    edition,          \* which registration of the leads routes the process runs
    leads,            \* the leads table: per id, the row or null
    leadCalls,        \* the requests to the leads routes, in order of arrival
    secretSet,        \* whether process.env.CLERK_WEBHOOK_SECRET is configured
    users,            \* the users table: per id, the row or null
    hooks,            \* the requests to /api/webhooks/clerk, in order of arrival
    analytics,        \* analytics.ts:290  the AnalyticsManager singleton
    gtag,             \* whether window.gtag is defined
    measurementId,    \* whether import.meta.env.VITE_GA_MEASUREMENT_ID is set
    choice,           \* history: what the user last chose in the consent dialog
    sent,             \* history: the events handed to GA4 or POSTed to /api/analytics
    routesRegistered, \* api/index.ts:87  let routesRegistered = false
    stack,            \* what has been mounted on the Express app of api/index.ts
    invocations,      \* the invocations of the serverless handler, in order of start
    unswept           \* the limiter as the same requests leave it in a process
                      \* whose cleanup timer never runs

limiterVars ==
    <<now, config, rateLimitStore, nextEntry, lastSweep, nextReq, reqs, last,
      lastPop, log>>

proxyVars == <<STEAM_CACHE, calls>>

rollupVars == <<gameResults, gameResponse>>

leadVars == <<edition, leads, leadCalls>>

\* The state of the parts of the application besides the limiter, the Steam
\* proxy and the aggregation.
hookVars == <<secretSet, users, hooks>>

analyticsVars == <<analytics, gtag, measurementId, choice, sent>>

adapterVars == <<routesRegistered, stack, invocations>>

restVars == <<leadVars, hookVars, analyticsVars, adapterVars>>

extraVars == <<restVars, unswept>>

baseVars == <<limiterVars, proxyVars, rollupVars>>

notLeadVars == <<baseVars, hookVars, analyticsVars, adapterVars, unswept>>

notHookVars == <<baseVars, leadVars, analyticsVars, adapterVars, unswept>>

notAnalyticsVars == <<baseVars, leadVars, hookVars, adapterVars, unswept>>

notAdapterVars == <<baseVars, leadVars, hookVars, analyticsVars, unswept>>

vars == <<baseVars, extraVars>>

----------------------------------------------------------------------------
(* Bounds of the limiter model *)

TickMs == 500          \* granularity of the clock
MaxTicks == 3          \* the clock stops at MaxTicks * TickMs
MaxRequests == 3       \* requests that reach a limiter in one behaviour
WindowTicks == {2, 3}  \* windowMs of a configuration, in ticks
Quotas == {1, 2}       \* maxRequests of a configuration

Keys == {"user:u1"}

\* The worked example of the limiter: one minute, three requests, and the
\* instants at which its caller sends requests (and the end of the window).
MaxQuotaRequests == 5  \* requests that reach the limiter of the example
QuotaWindowMs == 60 * 1000
QuotaQuotas == {3}
QuotaInstants == {0, 1000, 2000, 3000, 60000, 61000}

\* A caller that comes back when Retry-After has run out: as many requests
\* as it takes to fill a quota of one, be rejected and come back.
MaxRetryRequests == 4

ReqIds ==
    1..(IF MaxRequests > MaxRetryRequests THEN MaxRequests ELSE MaxRetryRequests)

----------------------------------------------------------------------------
(* Limiter configurations: createRateLimiter(config) *)

RateLimitConfig ==
    [windowMs : {w * TickMs : w \in WindowTicks},
     maxRequests : Quotas,
     skipSuccessfulRequests : BOOLEAN,
     skipFailedRequests : BOOLEAN]

\* The limiter instances of a process: "custom" is createRateLimiter(config)
\* for any configuration; "strict" is a predefined instance in the manner of
\* authRateLimiter (short quota, no skip flags).  Both use the default key
\* generator, so they compute the same key for the same caller.
Limiters == {"custom", "strict"}

strictConfig ==
    [windowMs |-> 2 * TickMs, maxRequests |-> 1,
     skipSuccessfulRequests |-> FALSE, skipFailedRequests |-> FALSE]

\* A process that mounts one limiter instance.
SingleLimiter == [{"custom"} -> RateLimitConfig]

\* A process that mounts one instance with a window of one minute and no skip
\* flag, in the manner of apiRateLimiter.
QuotaLimiter ==
    [{"custom"} ->
        [windowMs : {QuotaWindowMs}, maxRequests : QuotaQuotas,
         skipSuccessfulRequests : {FALSE}, skipFailedRequests : {FALSE}]]

\* A process that mounts one instance with a window of one minute and a
\* quota of one, with or without the skip flags.
RetryLimiter ==
    [{"custom"} ->
        [windowMs : {QuotaWindowMs}, maxRequests : {1},
         skipSuccessfulRequests : BOOLEAN, skipFailedRequests : BOOLEAN]]

\* Requests that reach the limiters of a process in one behaviour.
RequestBound ==
    IF config \in QuotaLimiter THEN MaxQuotaRequests
    ELSE IF config \in RetryLimiter THEN MaxRetryRequests
    ELSE MaxRequests

\* A process that mounts both, with different windowMs or maxRequests.
TwoLimiters ==
    {c \in [Limiters -> RateLimitConfig] :
        /\ c["strict"] = strictConfig
        /\ \/ c["custom"].windowMs # strictConfig.windowMs
           \/ c["custom"].maxRequests # strictConfig.maxRequests}

----------------------------------------------------------------------------
(* RateLimitEntry objects.  `id` is the identity of the JavaScript object   *)
(* (the middleware's closure keeps a reference to the object it used);     *)
(* `owners` is a history field parallel to `requests`: owners[i] is the    *)
(* request that pushed requests[i] and the limiter it went through.        *)

NoEntry ==
    [id |-> 0, count |-> 0, resetTime |-> 0, requests |-> <<>>, owners |-> <<>>]

NewEntry(id, t, windowMs) ==
    [id |-> id, count |-> 0, resetTime |-> t + windowMs,
     requests |-> <<>>, owners |-> <<>>]

\* Positions of `requests` that Array.prototype.filter keeps.
RECURSIVE KeepSeq(_, _, _)
KeepSeq(s, aux, windowStart) ==
    IF s = <<>> THEN <<>>
    ELSE IF s[1] > windowStart
         THEN <<aux[1]>> \o KeepSeq(Tail(s), Tail(aux), windowStart)
         ELSE KeepSeq(Tail(s), Tail(aux), windowStart)

\* The lookup without the reset of an entry whose resetTime has passed
GetOrCreateNoReset(entry, t, windowMs, id) ==
    IF entry = NoEntry THEN NewEntry(id, t, windowMs) ELSE entry

\* if (!entry || entry.resetTime < now) { entry = {...}; store.set(key, entry) }
GetOrCreate(entry, t, windowMs, id) ==
    IF entry = NoEntry \/ entry.resetTime < t
    THEN NewEntry(id, t, windowMs)
    ELSE entry

\* entry.requests = entry.requests.filter(timestamp => timestamp > windowStart)
PruneEntry(entry, windowStart) ==
    [entry EXCEPT !.requests = KeepSeq(entry.requests, entry.requests, windowStart),
                  !.owners = KeepSeq(entry.requests, entry.owners, windowStart)]

\* The test with > in place of >=
LimitExceededStrict(entry, maxRequests) == Len(entry.requests) > maxRequests

\* if (entry.requests.length >= maxRequests)
LimitExceeded(entry, maxRequests) == Len(entry.requests) >= maxRequests

\* Math.ceil(a / b) for integers a and b > 0
Ceil(a, b) == -((-a) \div b)

\* const retryAfter = Math.ceil((entry.resetTime - now) / 1000)
RetryAfter(entry, t) == Ceil(entry.resetTime - t, 1000)

\* entry.requests.push(now); entry.count++
RecordRequest(entry, t, r, l) ==
    [entry EXCEPT !.requests = Append(@, t),
                  !.owners = Append(@, [req |-> r, lim |-> l]),
                  !.count = @ + 1]

\* const remaining = Math.max(0, maxRequests - entry.requests.length)
Remaining(entry, maxRequests) ==
    IF maxRequests - Len(entry.requests) > 0
    THEN maxRequests - Len(entry.requests) ELSE 0

\* entry!.requests.pop()  (pop of an empty array removes nothing)
PopLast(entry) ==
    IF entry.requests = <<>> THEN entry
    ELSE [entry EXCEPT !.requests = SubSeq(@, 1, Len(@) - 1),
                       !.owners = SubSeq(@, 1, Len(@) - 1)]

\* The owner of the timestamp that pop() removes, 0 when it removes none,
\* and that timestamp.
PoppedOwner(entry) ==
    IF entry.owners = <<>> THEN 0 ELSE entry.owners[Len(entry.owners)].req

PoppedTime(entry) ==
    IF entry.requests = <<>> THEN -1 ELSE entry.requests[Len(entry.requests)]

----------------------------------------------------------------------------
(* Requests as the middleware sees them.                                   *)

\* Where an exception can be raised inside the try block before next():
\* the configured keyGenerator (line 61) and res.setHeader (lines 85, 108).
Faults == {"none", "keyGenerator", "setHeader"}

\* Status codes the downstream handler may pass to res.json: a success
\* (2xx) and a failure (>= 400).
StatusCodes == {200, 500}

\* A request that has not arrived, or whose res.json has been called.
NoRequest ==
    [st |-> "none", lim |-> "none", key |-> "none", entry |-> 0, t |-> -1]

NoCall ==
    [req |-> 0, lim |-> "none", key |-> "none", t |-> -1, fault |-> "none",
     outcome |-> "none", status |-> 0, nextCalls |-> 0, logged |-> FALSE,
     uncaught |-> FALSE, hooked |-> FALSE, remaining |-> -1, retryAfter |-> -1, reset |-> -1,
     prior |-> -1, priorOwn |-> -1, priorLog |-> -1]

\* An exception leaves the try block.
Raise(call) == [call EXCEPT !.uncaught = TRUE]

\* A catch block that logs and answers nothing (fails closed).
CatchBlockClosed(call) ==
    [call EXCEPT !.outcome = "failopen",
                 !.uncaught = FALSE,
                 !.logged = TRUE]

\* catch (error) { console.error(...); next(); }
CatchBlock(call) ==
    [call EXCEPT !.outcome = "failopen",
                 !.uncaught = FALSE,
                 !.logged = TRUE,
                 !.nextCalls = @ + 1]

\* History: the timestamps of `entry` pushed through limiter l.
OwnCount(entry, l) ==
    Cardinality({i \in 1..Len(entry.owners) : entry.owners[i].lim = l})

\* History: the counted requests of a key newer than windowStart.
LogCount(k, windowStart) ==
    Cardinality({i \in 1..Len(log[k]) : log[k][i].t > windowStart})

\* History: those of them that the limiter allowed (no exception raised).
AllowedCount(k, windowStart) ==
    Cardinality({i \in 1..Len(log[k]) :
                    log[k][i].t > windowStart /\ log[k][i].outcome = "allowed"})

RECURSIVE Without(_, _)
Without(s, r) ==
    IF s = <<>> THEN <<>>
    ELSE IF s[1].req = r THEN Without(Tail(s), r)
         ELSE <<s[1]>> \o Without(Tail(s), r)

\* The process after module load and registerRoutes: both stores are empty.
LimiterInit ==
    /\ now = 0
    /\ rateLimitStore = [k \in Keys |-> NoEntry]
    /\ nextEntry = 1
    /\ lastSweep = -1
    /\ nextReq = 1
    /\ reqs = [r \in ReqIds |-> NoRequest]
    /\ last = NoCall
    /\ lastPop = [by |-> 0, own |-> -1, removed |-> 0, time |-> -1]
    /\ log = [k \in Keys |-> <<>>]
    /\ STEAM_CACHE = <<>>
    /\ calls = <<>>

\* No request has reached the leads routes.
NoLeads == edition = "none" /\ leads = <<>> /\ leadCalls = <<>>

\* No request has reached the webhook endpoint.
NoHooks == secretSet = FALSE /\ users = <<>> /\ hooks = <<>>

\* What the user has chosen in the consent dialog: each category granted
\* or denied.
Choices == [analytics : BOOLEAN, marketing : BOOLEAN]

NoChoice == [analytics |-> FALSE, marketing |-> FALSE]

\* new AnalyticsManager()  (analytics.ts:36-39)
NewManager == [initialized |-> FALSE, consentGiven |-> FALSE, queue |-> <<>>]

\* No page has loaded the analytics module.
NoAnalytics ==
    /\ analytics = NewManager /\ gtag = FALSE /\ measurementId = FALSE
    /\ choice = NoChoice /\ sent = <<>>

\* The serverless adapter has been loaded and not invoked.
NoAdapter == routesRegistered = FALSE /\ stack = <<>> /\ invocations = <<>>

\* No second process is followed.
NoUnswept == unswept = <<>>

\* Nothing but group g of the rest of the application is in use.
Quiet(g) ==
    /\ g # "leads" => NoLeads
    /\ g # "hooks" => NoHooks
    /\ g # "analytics" => NoAnalytics
    /\ g # "adapter" => NoAdapter
    /\ g # "unswept" => NoUnswept

\* No aggregation is under way.
NoAggregate == gameResults = <<>> /\ gameResponse = <<>> /\ Quiet("none")

\* The clock advances between two synchronous sections.
Tick ==
    /\ now + TickMs <= MaxTicks * TickMs
    /\ now' = now + TickMs
    /\ UNCHANGED <<config, rateLimitStore, nextEntry, lastSweep, nextReq, reqs,
                   last, lastPop, log, proxyVars, rollupVars, extraVars>>

\* The call as the middleware has it after `const now = Date.now()`.
Arrived(r, l, k, fault) ==
    [NoCall EXCEPT !.req = r, !.lim = l, !.key = k, !.t = now, !.fault = fault]

\* res.status(429).json({... retryAfter ...}); return   (lines 83-99)
Reject(call, entry) ==
    [call EXCEPT !.outcome = "rejected",
                 !.status = 429,
                 !.remaining = 0,
                 !.reset = entry.resetTime,
                 !.retryAfter = RetryAfter(entry, call.t)]

\* headers, the res.json override when a skip flag is set, next() (lines 106-129)
Accept(call, entry, cfg) ==
    [call EXCEPT !.outcome = "allowed",
                 !.hooked = cfg.skipSuccessfulRequests \/ cfg.skipFailedRequests,
                 !.remaining = Remaining(entry, cfg.maxRequests),
                 !.reset = entry.resetTime,
                 !.nextCalls = @ + 1]

\* The middleware returned by createRateLimiter(config), lines 59-135,
\* applied to a store: the store, the next entry identity and the pending
\* res.json overrides it leaves, what it did with the request, and whether
\* the request's timestamp was pushed.  r is the request, l the limiter
\* instance, k the key its keyGenerator returns, fault the place where an
\* exception is raised, if any.
Serve(store, entryId, inflight, r, l, k, fault) ==
    LET cfg == config[l]
        found == GetOrCreate(store[k], now, cfg.windowMs, entryId)
        pruned == PruneEntry(found, now - cfg.windowMs)
        pushed == RecordRequest(pruned, now, r, l)
        call == [Arrived(r, l, k, fault) EXCEPT
                    !.prior = Len(pruned.requests),
                    !.priorOwn = OwnCount(pruned, l),
                    !.priorLog = LogCount(k, now - cfg.windowMs)]
        exceeded == LimitExceeded(pruned, cfg.maxRequests)
        result == IF fault = "setHeader" THEN CatchBlock(Raise(call))
                  ELSE IF exceeded THEN Reject(call, pruned)
                  ELSE Accept(call, pushed, cfg)
    IN  IF fault = "keyGenerator"
        THEN [store |-> store, nextEntry |-> entryId, reqs |-> inflight,
              last |-> CatchBlock(Raise(Arrived(r, l, "none", fault))),
              pushed |-> FALSE]
        ELSE [store |-> [store EXCEPT ![k] = IF exceeded THEN pruned ELSE pushed],
              nextEntry |-> IF found.id = entryId THEN entryId + 1 ELSE entryId,
              reqs |-> IF result.hooked
                       THEN [inflight EXCEPT ![r] =
                                [st |-> "inflight", lim |-> l, key |-> k,
                                 entry |-> pushed.id, t |-> now]]
                       ELSE inflight,
              last |-> result,
              pushed |-> ~exceeded]

\* The middleware on the store of this process: one synchronous section
\* (the async function never awaits).
Middleware(l, k, fault) ==
    LET r == nextReq
        served == Serve(rateLimitStore, nextEntry, reqs, r, l, k, fault)
    IN  /\ nextReq <= RequestBound
        /\ nextReq' = nextReq + 1
        /\ rateLimitStore' = served.store
        /\ nextEntry' = served.nextEntry
        /\ reqs' = served.reqs
        /\ last' = served.last
        /\ log' = IF served.pushed
                  THEN [log EXCEPT ![k] =
                           Append(@, [t |-> now, lim |-> l, req |-> r,
                                      outcome |-> served.last.outcome])]
                  ELSE log
        /\ UNCHANGED <<now, config, lastSweep, lastPop>>

CheckAndRecord(l, k, fault) ==
    /\ Middleware(l, k, fault)
    /\ UNCHANGED <<proxyVars, rollupVars, extraVars>>

\* The res.json override installed at lines 113-127, called by the downstream
\* handler with res.statusCode = code, applied to a store.  `entry` is the
\* object the middleware used: when the store has meanwhile replaced or
\* deleted that object, pop() changes an object no longer reachable from the
\* store.
SkipsCount(cfg, code) ==
    LET isSuccess == code >= 200 /\ code < 300
        isFailed == code >= 400
    IN  \/ cfg.skipSuccessfulRequests /\ isSuccess
        \/ cfg.skipFailedRequests /\ isFailed

StillInStore(store, req) ==
    store[req.key] # NoEntry /\ store[req.key].id = req.entry

ResJson(store, inflight, r, code) ==
    LET req == inflight[r]
    IN  [store |-> IF SkipsCount(config[req.lim], code) /\ StillInStore(store, req)
                   THEN [store EXCEPT ![req.key] = PopLast(store[req.key])]
                   ELSE store,
         reqs |-> [inflight EXCEPT ![r] = NoRequest]]

JsonCalled(r, code) ==
    LET req == reqs[r]
        skip == SkipsCount(config[req.lim], code)
        cur == rateLimitStore[req.key]
        live == StillInStore(rateLimitStore, req)
        answered == ResJson(rateLimitStore, reqs, r, code)
    IN  /\ req.st = "inflight"
        /\ rateLimitStore' = answered.store
        /\ reqs' = answered.reqs
        /\ lastPop' = IF skip
                      THEN [by |-> r, own |-> req.t,
                            removed |-> IF live THEN PoppedOwner(cur) ELSE 0,
                            time |-> IF live THEN PoppedTime(cur) ELSE -1]
                      ELSE lastPop
        /\ log' = IF skip THEN [log EXCEPT ![req.key] = Without(@, r)] ELSE log
        /\ UNCHANGED <<now, config, nextEntry, lastSweep, nextReq, last>>

Respond(r, code) ==
    /\ JsonCalled(r, code)
    /\ UNCHANGED <<proxyVars, rollupVars, extraVars>>

\* setInterval(() => {...}, 5 * 60 * 1000), lines 37-44.  Two runs of the timer
\* are at least the interval apart; its phase against the requests is free.
SweepIntervalMs == 5 * 60 * 1000

\* A timer that also deletes the entries whose resetTime is the present
\* millisecond.
SweepEager ==
    /\ lastSweep = -1 \/ now - lastSweep >= SweepIntervalMs
    /\ lastSweep' = now
    /\ rateLimitStore' =
           [k \in Keys |->
               IF rateLimitStore[k] # NoEntry /\ rateLimitStore[k].resetTime <= now
               THEN NoEntry ELSE rateLimitStore[k]]
    /\ UNCHANGED <<now, config, nextEntry, nextReq, reqs, last, lastPop, log,
                   proxyVars, rollupVars, extraVars>>

Sweep ==
    /\ lastSweep = -1 \/ now - lastSweep >= SweepIntervalMs
    /\ lastSweep' = now
    /\ rateLimitStore' =
           [k \in Keys |->
               IF rateLimitStore[k] # NoEntry /\ rateLimitStore[k].resetTime < now
               THEN NoEntry ELSE rateLimitStore[k]]
    /\ UNCHANGED <<now, config, nextEntry, nextReq, reqs, last, lastPop, log,
                   proxyVars, rollupVars, extraVars>>

LimiterNext ==
    \/ Tick
    \/ \E l \in DOMAIN config, k \in Keys, fault \in Faults :
           CheckAndRecord(l, k, fault)
    \/ \E r \in ReqIds, code \in StatusCodes : Respond(r, code)
    \/ Sweep

\* The clock between two requests of the worked example: any later instant.
Advance ==
    /\ \E t \in QuotaInstants : t > now /\ now' = t
    /\ UNCHANGED <<config, rateLimitStore, nextEntry, lastSweep, nextReq, reqs,
                   last, lastPop, log, proxyVars, rollupVars, extraVars>>

\* The limiter of the example installs no res.json override (line 113).
QuotaNext ==
    \/ Advance
    \/ \E l \in DOMAIN config, k \in Keys, fault \in Faults :
           CheckAndRecord(l, k, fault)
    \/ Sweep

QuotaInit == config \in QuotaLimiter /\ LimiterInit /\ NoAggregate

SpecQuota == QuotaInit /\ [][QuotaNext]_vars

\* The caller that waits for Retry-After: the clock of the example, and
\* every handler of the limiter.
RetryNext ==
    \/ Advance
    \/ \E l \in DOMAIN config, k \in Keys, fault \in Faults :
           CheckAndRecord(l, k, fault)
    \/ \E r \in ReqIds, code \in StatusCodes : Respond(r, code)
    \/ Sweep

RetryInit == config \in RetryLimiter /\ LimiterInit /\ NoAggregate

SpecRetry == RetryInit /\ [][RetryNext]_vars

\* One limiter instance, any configuration.
SingleInit == config \in SingleLimiter /\ LimiterInit /\ NoAggregate

SpecLimiter == SingleInit /\ [][LimiterNext]_vars

\* Two limiter instances of different configurations in one process.
SharedInit == config \in TwoLimiters /\ LimiterInit /\ NoAggregate

SpecShared == SharedInit /\ [][LimiterNext]_vars

----------------------------------------------------------------------------
(* Claims about the rate limiter *)

NoSkip(cfg) == ~cfg.skipSuccessfulRequests /\ ~cfg.skipFailedRequests

Decided == last.fault = "none" /\ last.outcome \in {"allowed", "rejected"}

\* C1 (as claimed): with one limiter instance without skip flags, the accepted
\* requests of a key whose timestamps lie in a window (t - windowMs, t] never
\* number more than maxRequests.  Every window that holds accepted requests
\* is contained in the window ending at the latest of them, which is the
\* window ending at `now` in the state where that request was accepted, so
\* the bound on the window ending at `now` in every state is the bound on
\* every window.
SlidingWindowBound ==
    \A k \in Keys :
        NoSkip(config["custom"]) =>
            AllowedCount(k, now - config["custom"].windowMs)
                <= config["custom"].maxRequests

\* C2 (as claimed): with one limiter instance without skip flags, a call with
\* fewer than maxRequests counted calls of its key in the windowMs before it
\* is allowed and a call with maxRequests or more of them is rejected.
BurstLimit ==
    (Decided /\ NoSkip(config[last.lim])) =>
        /\ last.priorLog < config[last.lim].maxRequests => last.outcome = "allowed"
        /\ last.priorLog >= config[last.lim].maxRequests => last.outcome = "rejected"

\* C3 (as claimed): a retraction removes from the store no timestamp but the
\* one pushed by the request whose response triggers it.  Two requests that
\* pushed the same number are not told apart here: the claim is violated only
\* when the timestamp removed is another request's and another time.
RetractionByIdentity ==
    \/ lastPop.removed \in {0, lastPop.by}
    \/ lastPop.time = lastPop.own

\* C4 (as claimed): the outcome a limiter instance computes for a key depends
\* only on the requests that went through that instance: it rejects exactly
\* when maxRequests timestamps of its own are in the window.
LimiterIsolation ==
    Decided =>
        (last.outcome = "rejected" <=> last.priorOwn >= config[last.lim].maxRequests)

\* C5: a request on which the limiter raised an exception is passed to the
\* next handler exactly once, gets no 429, and the exception is logged and
\* does not leave the middleware.
FailOpen ==
    last.fault # "none" =>
        /\ last.nextCalls = 1
        /\ last.status # 429
        /\ last.logged
        /\ ~last.uncaught

\* C5 witness: res.setHeader threw on a request that was over its limit.
FailOpenWitness ==
    /\ last.fault = "setHeader"
    /\ last.prior >= config[last.lim].maxRequests
    /\ last.nextCalls = 1

----------------------------------------------------------------------------
(* The Steam proxy routes of registerRoutes (Clerk edition),               *)
(* routes.ts:425-627.                                                      *)

ProxyTickMs == 150000  \* granularity of the clock in SpecProxy
MaxProxyTicks == 2     \* the clock stops at MaxProxyTicks * ProxyTickMs
MaxCalls == 2          \* requests that reach the proxy routes in one behaviour

\* const CACHE_TTL = 5 * 60 * 1000
CACHE_TTL == 5 * 60 * 1000

\* The head of the configured list (20 identifiers in the source).
TOP_GAME_IDS == <<730, 570>>

\* req.params.id of the details route
AppIdParams == {"730", "570"}

\* req.query.term of the search route; "" stands for a missing term
Terms == {"dota", "portal"}

\* `${appId}` and detailsData[appId] for a number of TOP_GAME_IDS: the
\* decimal string of the number
AppIdString(appId) == IF appId = 730 THEN "730" ELSE "570"

\* What the upstream sources hold: detailsData[appId].data of the store API.
AppData(appId) ==
    IF appId = "730"
    THEN [steam_appid |-> 730, name |-> "Counter-Strike 2",
          developers |-> <<"Hidden Path Entertainment", "Valve">>]
    ELSE [steam_appid |-> 570, name |-> "Dota 2", developers |-> <<"Valve">>]

\* data.items of the store search API for a term with matches
StoreItems(term) ==
    IF term = "dota"
    THEN <<[id |-> 570, name |-> "Dota 2", tiny_image |-> "570.jpg"]>>
    ELSE <<[id |-> 400, name |-> "Portal", tiny_image |-> "400.jpg"],
           [id |-> 620, name |-> "Portal 2", tiny_image |-> "620.jpg"]>>

\* How a metadata fetch (store appdetails) can settle:
\*   ok            { [appId]: { success: true, data } }
\*   absent        { [appId]: { success: false } }
\*   unkeyed       a JSON object without the appId key
\*   serverError   an HTTP 5xx reply whose body is a JSON error object: fetch
\*                 resolves, json() parses it, and response.ok is not read
\*   networkError  fetch rejects
\*   malformed     response.json() throws (as on an HTTP 5xx with an HTML body)
MetaOutcomes ==
    {"ok", "absent", "unkeyed", "serverError", "networkError", "malformed"}

\* How a player-count fetch can settle:
\*   count         { response: { player_count: n } }
\*   noCount       JSON without response.player_count
\*   networkError  fetch rejects
\*   malformed     response.json() throws
StatsOutcomes == {"count", "noCount", "networkError", "malformed"}

\* response.player_count when the statistics API reports one
PlayerCounts == {1, 2}

\* How a store search fetch can settle:
\*   items         { total: n, items: [...] } with matches
\*   empty         { total: 0, items: [] }
\*   noItems       a JSON object without items
\*   serverError   an HTTP 5xx reply whose body is a JSON error object
\*   networkError  fetch rejects
\*   malformed     response.json() throws
SearchOutcomes ==
    {"items", "empty", "noItems", "serverError", "networkError", "malformed"}

\* fetch or response.json() throws
Throws(outcome) == outcome \in {"networkError", "malformed"}

\* The success test reduced to "the reply has an entry for appId"
MetaSuccessKeyed(outcome) == outcome \in {"ok", "absent"}

\* detailsData[appId]?.success, after fetch and json() did not throw
MetaSuccess(outcome) == outcome = "ok"

\* What a lookup remembers of a settled fetch: whether it threw, and if not,
\* which branch its reply took.
MetaClass(outcome) ==
    IF outcome \in {"networkError", "malformed"} THEN "threw"
    ELSE IF outcome \in {"absent", "unkeyed", "serverError"} THEN "notFound"
    ELSE "ok"

StatsClass(outcome) ==
    IF outcome \in {"networkError", "malformed"} THEN "threw" ELSE outcome

\* The player count without the default of the catch block: the number is
\* used whenever the reply is not one without a count.
PlayerCountNoCatch(outcome, n) == IF outcome = "noCount" THEN 0 ELSE n

\* playerCount = statsData.response?.player_count || 0, inside try/catch
PlayerCount(outcome, n) == IF outcome = "count" THEN n ELSE 0

\* The record a lookup of getTopGames returns (routes.ts:561-572); the
\* fields copied from appData unchanged are represented by name and developers.
GameRecord(appData, playerCount) ==
    [appid |-> appData.steam_appid,
     name |-> appData.name,
     developers |-> appData.developers,
     playerCount |-> playerCount]

\* The result of the details route (routes.ts:500-516)
DetailsResult(appData, playerCount) ==
    [steam_appid |-> appData.steam_appid,
     name |-> appData.name,
     developers |-> appData.developers,
     metrics |-> [player_count |-> playerCount]]

\* data.items?.map(item => ({appid, name, logo, icon})) || []
RECURSIVE MapItems(_)
MapItems(items) ==
    IF items = <<>> THEN <<>>
    ELSE <<[appid |-> items[1].id, name |-> items[1].name,
            logo |-> items[1].tiny_image, icon |-> items[1].tiny_image]>>
         \o MapItems(Tail(items))

SearchResults(outcome, term) ==
    IF outcome = "items" THEN MapItems(StoreItems(term)) ELSE <<>>

\* Array.prototype.sort((a, b) => b.key - a.key) is stable: an element goes
\* behind the elements already placed whose key is not smaller.
RECURSIVE InsertDesc(_, _, _)
InsertDesc(sorted, x, key) ==
    IF sorted = <<>> THEN <<x>>
    ELSE IF sorted[1][key] >= x[key]
         THEN <<sorted[1]>> \o InsertDesc(Tail(sorted), x, key)
         ELSE <<x>> \o sorted

\* The array left in the order it came in
SortNone(s, key) == s

\* s.sort((a, b) => b[key] - a[key])
RECURSIVE SortDesc(_, _)
SortDesc(s, key) ==
    IF s = <<>> THEN <<>>
    ELSE InsertDesc(SortDesc(SubSeq(s, 1, Len(s) - 1), key), s[Len(s)], key)

\* results.filter(g => g !== null): a lookup result is <<>> (null) or <<record>>
RECURSIVE NonNull(_)
NonNull(results) ==
    IF results = <<>> THEN <<>> ELSE results[1] \o NonNull(Tail(results))

\* One pass of the inner loop of routes.ts:590-609: studioMap is a Map, kept
\* here as the sequence of its entries in insertion order.
\* The studioMap update with >= for >: a later game that ties takes topGame
RECURSIVE AddToStudioLastWins(_, _, _)
AddToStudioLastWins(studioMap, dev, game) ==
    IF studioMap = <<>>
    THEN <<[name |-> dev, totalPlayers |-> game.playerCount,
            games |-> <<game.name>>, topPlayerCount |-> game.playerCount,
            topGame |-> game.name]>>
    ELSE IF studioMap[1].name = dev
         THEN <<[studioMap[1] EXCEPT
                    !.totalPlayers = @ + game.playerCount,
                    !.games = Append(@, game.name),
                    !.topGame =
                        IF game.playerCount >= studioMap[1].topPlayerCount
                        THEN game.name ELSE @,
                    !.topPlayerCount =
                        IF game.playerCount >= @ THEN game.playerCount ELSE @]>>
              \o Tail(studioMap)
         ELSE <<studioMap[1]>>
              \o AddToStudioLastWins(Tail(studioMap), dev, game)

RECURSIVE AddToStudio(_, _, _)
AddToStudio(studioMap, dev, game) ==
    IF studioMap = <<>>
    THEN <<[name |-> dev, totalPlayers |-> game.playerCount,
            games |-> <<game.name>>, topPlayerCount |-> game.playerCount,
            topGame |-> game.name]>>
    ELSE IF studioMap[1].name = dev
         THEN <<[studioMap[1] EXCEPT
                    !.totalPlayers = @ + game.playerCount,
                    !.games = Append(@, game.name),
                    !.topPlayerCount =
                        IF game.playerCount > @ THEN game.playerCount ELSE @,
                    !.topGame =
                        IF game.playerCount > studioMap[1].topPlayerCount
                        THEN game.name ELSE @]>>
              \o Tail(studioMap)
         ELSE <<studioMap[1]>> \o AddToStudio(Tail(studioMap), dev, game)

RECURSIVE AddDevelopers(_, _, _)
AddDevelopers(studioMap, devs, game) ==
    IF devs = <<>> THEN studioMap
    ELSE AddDevelopers(AddToStudio(studioMap, devs[1], game), Tail(devs), game)

RECURSIVE StudioMap(_, _)
StudioMap(studioMap, games) ==
    IF games = <<>> THEN studioMap
    ELSE StudioMap(AddDevelopers(studioMap, games[1].developers, games[1]),
                   Tail(games))

RECURSIVE StudioRows(_)
StudioRows(studioMap) ==
    IF studioMap = <<>> THEN <<>>
    ELSE <<[name |-> studioMap[1].name,
            gamesCount |-> Len(studioMap[1].games),
            totalPlayers |-> studioMap[1].totalPlayers,
            topGame |-> studioMap[1].topGame]>>
         \o StudioRows(Tail(studioMap))

\* routes.ts:579-620: filter, sort, studio rollup, response
TopGamesResponse(results) ==
    LET games == SortDesc(NonNull(results), "playerCount")
        studios == SortDesc(StudioRows(StudioMap(<<>>, games)), "totalPlayers")
    IN  [games |-> games, studios |-> studios]

\* JavaScript null; a value v that is not null is written <<v>>
Null == <<>>

\* getCached with the comparison turned round: only an expired entry is served
GetCachedInverted(cache, key, t) ==
    IF key \in DOMAIN cache /\ t - cache[key].timestamp > CACHE_TTL
    THEN <<cache[key].data>>
    ELSE Null

\* getCached with <= for <: an entry of age CACHE_TTL is still served
GetCachedInclusive(cache, key, t) ==
    IF key \in DOMAIN cache /\ t - cache[key].timestamp <= CACHE_TTL
    THEN <<cache[key].data>>
    ELSE Null

\* function getCached(key), evaluated at time t
GetCached(cache, key, t) ==
    IF key \in DOMAIN cache /\ t - cache[key].timestamp < CACHE_TTL
    THEN <<cache[key].data>>
    ELSE Null

\* function setCache(key, data), evaluated at time t
SetCache(cache, key, data, t) ==
    [j \in DOMAIN cache \cup {key} |->
        IF j = key THEN [data |-> data, timestamp |-> t] ELSE cache[j]]

Routes == {"search", "details", "topGames"}

\* The handlers registered for a route, in the order Express runs them:
\* app.get(path, requireAuth, handler)
RouteChain(route) == <<"requireAuth", "handler">>

\* req.query.term / req.params.id a request to the route can carry
Params(route) ==
    IF route = "search" THEN Terms \cup {""}
    ELSE IF route = "details" THEN AppIdParams
    ELSE {"-"}

CacheKey(route, param) ==
    IF route = "search" THEN "search:" \o param
    ELSE IF route = "details" THEN "details:" \o param
    ELSE "top-games"

\* How clerkClient.sessions.verifySession can settle
Sessions == {"active", "revoked", "error"}

NoBody == <<>>

\* One lookup of an application: the metadata fetch, then the player-count
\* fetch.  result is Null (also while not yet known) or <<record>>.
PendingLookup(appId) ==
    [appId |-> appId, st |-> "meta", meta |-> "pending", stats |-> "pending",
     result |-> <<>>]

\* A request to a route, with the first handler of the chain (requireAuth)
\* waiting for verifySession.  visited lists the handlers run so far; age is the age of the cache entry of
\* the request's key when the handler looked (-1: no entry); afterStore says
\* whether, when the handler started, an earlier request of the same key had
\* stored its result less than CACHE_TTL before; reply is how the first
\* upstream fetch of a search or details handler settled.
NewCall(route, param) ==
    [route |-> route, param |-> param, st |-> "auth",
     visited |-> <<RouteChain(route)[1]>>,
     startedAt |-> -1, finishedAt |-> -1,
     status |-> 0, body |-> NoBody, fromCache |-> FALSE, age |-> -1,
     afterStore |-> FALSE, rounds |-> 0, lookups |-> <<>>, reply |-> "none"]

Finish(call, status, body, t) ==
    [call EXCEPT !.st = "done", !.status = status, !.body = body,
                 !.finishedAt = t]

\* requireAuth answering 401 (clerk-auth.ts:30-36, 44-50, 60-67)
Unauthorized(call, t) == Finish(call, 401, [message |-> "Unauthorized"], t)

\* next(): Express runs the handler registered after the ones already run
NextHandler(call) == RouteChain(call.route)[Len(call.visited) + 1]

\* Some earlier request with the same cache key has stored its result, and
\* did so less than CACHE_TTL before t.
StoredRecently(cs, key, t) ==
    \E d \in DOMAIN cs :
        /\ CacheKey(cs[d].route, cs[d].param) = key
        /\ cs[d].st = "done" /\ cs[d].status = 200 /\ ~cs[d].fromCache
        /\ t - cs[d].finishedAt < CACHE_TTL

Age(cache, key, t) ==
    IF key \in DOMAIN cache THEN t - cache[key].timestamp ELSE -1

\* The upstream fetches a handler issues after a cache miss
FirstLookups(route, param) ==
    IF route = "topGames"
    THEN [i \in DOMAIN TOP_GAME_IDS |->
            PendingLookup(AppIdString(TOP_GAME_IDS[i]))]
    ELSE IF route = "details" THEN <<PendingLookup(param)>>
    ELSE <<>>

\* The synchronous prefix of a route handler, up to its first await:
\* routes.ts:442-450, 471-478, 534-539.
HandlerStart(call, cache, cs, t) ==
    LET key == CacheKey(call.route, call.param)
        cached == GetCached(cache, key, t)
        started == [call EXCEPT !.visited = Append(@, NextHandler(call)),
                                !.startedAt = t]
    IN  IF call.route = "search" /\ call.param = ""
        THEN Finish(started, 400, [message |-> "Search term required"], t)
        ELSE LET looked == [started EXCEPT
                               !.age = Age(cache, key, t),
                               !.afterStore = StoredRecently(cs, key, t)]
             IN  IF Len(cached) > 0
                 THEN Finish([looked EXCEPT !.fromCache = TRUE], 200,
                             cached[1], t)
                 ELSE [looked EXCEPT
                          !.st = "fetching", !.rounds = 1,
                          !.lookups = FirstLookups(call.route, call.param)]

Fetching(c) == c \in DOMAIN calls /\ calls[c].st = "fetching"

\* A request reaches a Steam proxy route; requireAuth runs up to its await.
Request(route, param, hasToken) ==
    /\ Len(calls) < MaxCalls
    /\ calls' = Append(calls,
                       IF hasToken THEN NewCall(route, param)
                       ELSE Unauthorized(NewCall(route, param), now))
    /\ UNCHANGED <<STEAM_CACHE, limiterVars, rollupVars, extraVars>>

\* verifySession settles: requireAuth answers 401 or calls next(), which runs
\* the next handler of the chain up to its first await.
Verify(c, session) ==
    /\ c \in DOMAIN calls /\ calls[c].st = "auth"
    /\ calls' = [calls EXCEPT ![c] =
                    IF session = "active"
                    THEN HandlerStart(@, STEAM_CACHE, calls, now)
                    ELSE Unauthorized(@, now)]
    /\ UNCHANGED <<STEAM_CACHE, limiterVars, rollupVars, extraVars>>

\* search: the store search settles (routes.ts:450-467)
SearchSettle(c, outcome) ==
    /\ Fetching(c) /\ calls[c].route = "search"
    /\ IF Throws(outcome)
       THEN /\ calls' = [calls EXCEPT ![c] =
                            Finish([@ EXCEPT !.reply = outcome], 500,
                                   [message |-> "Failed to fetch from Steam"],
                                   now)]
            /\ UNCHANGED STEAM_CACHE
       ELSE LET results == SearchResults(outcome, calls[c].param)
            IN  /\ STEAM_CACHE' = SetCache(STEAM_CACHE,
                                           CacheKey("search", calls[c].param),
                                           results, now)
                /\ calls' = [calls EXCEPT ![c] =
                                Finish([@ EXCEPT !.reply = outcome], 200,
                                       results, now)]
    /\ UNCHANGED <<limiterVars, rollupVars, extraVars>>

\* details: the metadata fetch settles (routes.ts:478-487, 520-523)
DetailsMetaSettle(c, outcome) ==
    /\ Fetching(c) /\ calls[c].route = "details"
    /\ calls[c].lookups[1].st = "meta"
    /\ calls' = [calls EXCEPT ![c] =
          LET seen == [@ EXCEPT !.lookups[1].meta = MetaClass(outcome),
                                !.reply = outcome]
          IN  IF Throws(outcome)
              THEN Finish([seen EXCEPT !.lookups[1].st = "settled"], 500,
                          [message |-> "Failed to fetch app details"], now)
              ELSE IF ~MetaSuccess(outcome)
              THEN Finish([seen EXCEPT !.lookups[1].st = "settled"], 404,
                          [message |-> "App not found on Steam"], now)
              ELSE [seen EXCEPT !.lookups[1].st = "stats"]]
    /\ UNCHANGED <<STEAM_CACHE, limiterVars, rollupVars, extraVars>>

\* details: the player-count fetch settles (routes.ts:489-519)
DetailsStatsSettle(c, outcome, n) ==
    /\ Fetching(c) /\ calls[c].route = "details"
    /\ calls[c].lookups[1].st = "stats"
    /\ LET result == DetailsResult(AppData(calls[c].param),
                                   PlayerCount(outcome, n))
       IN  /\ STEAM_CACHE' = SetCache(STEAM_CACHE,
                                      CacheKey("details", calls[c].param),
                                      result, now)
           /\ calls' = [calls EXCEPT ![c] =
                Finish([@ EXCEPT !.lookups[1].st = "settled",
                                 !.lookups[1].stats = StatsClass(outcome),
                                 !.lookups[1].result = <<result>>],
                       200, result, now)]
    /\ UNCHANGED <<limiterVars, rollupVars, extraVars>>

\* topGames: the metadata fetch of lookup i settles (routes.ts:540-549, 573-575)
MetaSettle(c, i, outcome) ==
    /\ Fetching(c) /\ calls[c].route = "topGames"
    /\ i \in DOMAIN calls[c].lookups /\ calls[c].lookups[i].st = "meta"
    /\ calls' = [calls EXCEPT ![c].lookups[i] =
          IF Throws(outcome) \/ ~MetaSuccess(outcome)
          THEN [@ EXCEPT !.st = "settled", !.meta = MetaClass(outcome),
                         !.stats = "none"]
          ELSE [@ EXCEPT !.st = "stats", !.meta = MetaClass(outcome)]]
    /\ UNCHANGED <<STEAM_CACHE, limiterVars, rollupVars, extraVars>>

\* topGames: the player-count fetch of lookup i settles (routes.ts:551-572)
StatsSettle(c, i, outcome, n) ==
    /\ Fetching(c) /\ calls[c].route = "topGames"
    /\ i \in DOMAIN calls[c].lookups /\ calls[c].lookups[i].st = "stats"
    /\ LET appData == AppData(calls[c].lookups[i].appId)
       IN  calls' = [calls EXCEPT ![c].lookups[i] =
              [@ EXCEPT !.st = "settled", !.stats = StatsClass(outcome),
                        !.result = <<GameRecord(appData,
                                                PlayerCount(outcome, n))>>]]
    /\ UNCHANGED <<STEAM_CACHE, limiterVars, rollupVars, extraVars>>

\* results[i] of Promise.all(gamePromises): in the order of TOP_GAME_IDS
LookupResults(lookups) == [i \in DOMAIN lookups |-> lookups[i].result]

\* The gather resolving as soon as one lookup has settled (Promise.race)
AnySettled(lookups) == \E i \in DOMAIN lookups : lookups[i].st = "settled"

\* A gather that waits for every lookup to resolve with a record
AllSucceeded(lookups) ==
    \A i \in DOMAIN lookups :
        lookups[i].st = "settled" /\ Len(lookups[i].result) > 0

\* await Promise.all(gamePromises): every lookup has settled.  A lookup
\* catches whatever its fetches throw, so none rejects and ends the wait.
AllSettled(lookups) == \A i \in DOMAIN lookups : lookups[i].st = "settled"

\* topGames: Promise.all resolves (routes.ts:578-622)
Gather(c) ==
    /\ Fetching(c) /\ calls[c].route = "topGames"
    /\ AllSettled(calls[c].lookups)
    /\ LET response == TopGamesResponse(LookupResults(calls[c].lookups))
       IN  /\ STEAM_CACHE' = SetCache(STEAM_CACHE, "top-games", response, now)
           /\ calls' = [calls EXCEPT ![c] = Finish(@, 200, response, now)]
    /\ UNCHANGED <<limiterVars, rollupVars, extraVars>>

\* Time passes between two sections of the event loop.
ProxyTick ==
    /\ now + ProxyTickMs <= MaxProxyTicks * ProxyTickMs
    /\ now' = now + ProxyTickMs
    /\ UNCHANGED <<config, rateLimitStore, nextEntry, lastSweep, nextReq, reqs,
                   last, lastPop, log, proxyVars, rollupVars, extraVars>>

ProxyNext ==
    \/ ProxyTick
    \/ \E route \in Routes : \E param \in Params(route), hasToken \in BOOLEAN :
          Request(route, param, hasToken)
    \/ \E c \in 1..MaxCalls, session \in Sessions : Verify(c, session)
    \/ \E c \in 1..MaxCalls, outcome \in SearchOutcomes : SearchSettle(c, outcome)
    \/ \E c \in 1..MaxCalls, outcome \in MetaOutcomes : DetailsMetaSettle(c, outcome)
    \/ \E c \in 1..MaxCalls, outcome \in StatsOutcomes, n \in PlayerCounts :
          DetailsStatsSettle(c, outcome, n)
    \/ \E c \in 1..MaxCalls, i \in DOMAIN TOP_GAME_IDS, outcome \in MetaOutcomes :
          MetaSettle(c, i, outcome)
    \/ \E c \in 1..MaxCalls, i \in DOMAIN TOP_GAME_IDS, outcome \in StatsOutcomes,
          n \in PlayerCounts :
          StatsSettle(c, i, outcome, n)
    \/ \E c \in 1..MaxCalls : Gather(c)

\* registerRoutes mounts no rate limiter on the application.
ProxyInit == config = <<>> /\ LimiterInit /\ NoAggregate

SpecProxy == ProxyInit /\ [][ProxyNext]_vars

\* The topGames route alone, with the scheduling of the event loop: once
\* every promise handed to Promise.all has settled, the continuation of the
\* await is queued as a microtask and runs.  When an upstream fetch settles
\* is up to the network, and nothing in the handler bounds it.
FanoutNext ==
    \/ ProxyTick
    \/ \E hasToken \in BOOLEAN : Request("topGames", "-", hasToken)
    \/ \E c \in 1..MaxCalls, session \in Sessions : Verify(c, session)
    \/ \E c \in 1..MaxCalls, i \in DOMAIN TOP_GAME_IDS, outcome \in MetaOutcomes :
          MetaSettle(c, i, outcome)
    \/ \E c \in 1..MaxCalls, i \in DOMAIN TOP_GAME_IDS, outcome \in StatsOutcomes,
          n \in PlayerCounts :
          StatsSettle(c, i, outcome, n)
    \/ \E c \in 1..MaxCalls : Gather(c)

\* Gather(c) can run: ENABLED <<Gather(c)>>_vars
GatherReady(c) ==
    Fetching(c) /\ calls[c].route = "topGames" /\ AllSettled(calls[c].lookups)

\* The step is a Gather(c) step: the only step that ends the wait of a
\* topGames request.
Gathers(c) == Fetching(c) /\ calls[c].route = "topGames" /\ calls'[c].st = "done"

\* WF_vars(Gather(c)) for every request c, with ENABLED and the step written
\* out: the continuation is not ready forever without running.
EventLoop ==
    \A c \in 1..MaxCalls : []<>(~GatherReady(c)) \/ []<><<Gathers(c)>>_vars

SpecFanout == ProxyInit /\ [][FanoutNext]_vars /\ EventLoop

----------------------------------------------------------------------------
(* The aggregation of routes.ts:579-620 on its own: filter, sort and       *)
(* studio rollup applied to the results of one gather.                     *)

\* appData.developers || [] as the store API may report it
DeveloperLists ==
    {<<>>, <<"Valve">>, <<"Nexon">>, <<"Valve", "Nexon">>, <<"Valve", "Valve">>}

\* playerCount of a record
Counts == {0, 1, 2}

\* appData.name of the record a slot of results can hold
GameNames == <<"Counter-Strike 2", "Dota 2", "Team Fortress 2">>

\* appData.steam_appid of the record a slot of results can hold
SlotIds == <<730, 570, 440>>

\* results[i]: null, or the record of the lookup of the i-th identifier
SlotResults(i) ==
    {Null} \cup
    {<<[appid |-> SlotIds[i], name |-> GameNames[i], developers |-> devs,
        playerCount |-> n]>> : devs \in DeveloperLists, n \in Counts}

\* The arrays Promise.all can resolve to
ResultArrays ==
    {<<a, b, c>> : a \in SlotResults(1), b \in SlotResults(2),
                   c \in SlotResults(3)}

\* routes.ts:579-620, applied to the results at hand
Aggregate ==
    /\ gameResponse = <<>>
    /\ gameResponse' = <<TopGamesResponse(gameResults)>>
    /\ UNCHANGED <<gameResults, limiterVars, proxyVars, extraVars>>

RollupInit ==
    /\ config = <<>>
    /\ LimiterInit
    /\ gameResults \in ResultArrays
    /\ gameResponse = <<>>
    /\ Quiet("none")

RollupNext == Aggregate

SpecRollup == RollupInit /\ [][RollupNext]_vars

----------------------------------------------------------------------------
(* Claims about the Steam proxy routes                                     *)

Range(seq) == {seq[i] : i \in DOMAIN seq}

HandlerRan(call) == "handler" \in Range(call.visited)

TopGamesCalls == {c \in DOMAIN calls : calls[c].route = "topGames"}

\* The call answered from the upstream sources: its handler missed the cache
\* and has sent its response.
FromUpstream(call) ==
    HandlerRan(call) /\ call.st = "done" /\ call.rounds = 1

\* C6 (as claimed): every request to a Steam proxy route is checked by the
\* rate limiter before the route handler runs, and a request answered 429
\* has run no route handler and issued no upstream fetch.
RateLimitedBeforeHandler ==
    \A c \in DOMAIN calls :
        /\ HandlerRan(calls[c]) =>
              \E i, j \in DOMAIN calls[c].visited :
                  /\ i < j
                  /\ calls[c].visited[i] = "steamApiRateLimiter"
                  /\ calls[c].visited[j] = "handler"
        /\ calls[c].status = 429 =>
              ~HandlerRan(calls[c]) /\ calls[c].rounds = 0

Abs(n) == IF n < 0 THEN -n ELSE n

ServedFresh ==
    \A c \in DOMAIN calls :
        /\ calls[c].fromCache =>
              calls[c].age >= 0 /\ calls[c].age < CACHE_TTL
        /\ (calls[c].route = "topGames" /\ calls[c].age >= CACHE_TTL) =>
              ~calls[c].fromCache /\ calls[c].rounds = 1

Overwrites ==
    \A c \in TopGamesCalls :
        (calls[c].st = "fetching" /\ calls'[c].st = "done") =>
            /\ "top-games" \in DOMAIN STEAM_CACHE'
            /\ STEAM_CACHE'["top-games"] =
                  [data |-> calls'[c].body, timestamp |-> now]

TTLExpiry == []ServedFresh /\ [][Overwrites]_vars

\* A topGames request found the entry at age CACHE_TTL exactly, fetched
\* afresh, and its result replaced the entry.
TTLExpiryWitness ==
    \E c \in TopGamesCalls :
        /\ calls[c].age = CACHE_TTL
        /\ FromUpstream(calls[c])
        /\ STEAM_CACHE["top-games"] =
              [data |-> calls[c].body, timestamp |-> calls[c].finishedAt]
        /\ calls[c].finishedAt = now

Settled(call, class) ==
    {i \in DOMAIN call.lookups : call.lookups[i].meta = class}

Failed(call) == Settled(call, "threw") \cup Settled(call, "notFound")

\* C9: a topGames request answered from the upstream sources succeeds
\* whatever set of metadata fetches failed or reported not-found, and its
\* games are exactly the applications whose metadata fetch succeeded, each
\* once and with the fields of the upstream data.
PartialMetadataFailure ==
    \A c \in TopGamesCalls :
        FromUpstream(calls[c]) =>
            LET games == calls[c].body.games
                ok == Settled(calls[c], "ok")
            IN  /\ calls[c].status = 200
                /\ Len(games) = Cardinality(ok)
                /\ \A i \in ok :
                      \E g \in DOMAIN games :
                          LET appData == AppData(calls[c].lookups[i].appId)
                          IN  /\ games[g].appid = appData.steam_appid
                              /\ games[g].name = appData.name
                              /\ games[g].developers = appData.developers
                /\ \A i \in Failed(calls[c]) :
                      \A g \in DOMAIN games :
                          games[g].appid #
                              AppData(calls[c].lookups[i].appId).steam_appid

\* One metadata fetch threw, the other succeeded, and the response lists
\* the one game.
PartialMetadataFailureWitness ==
    \E c \in TopGamesCalls :
        /\ FromUpstream(calls[c])
        /\ Settled(calls[c], "threw") # {} /\ Settled(calls[c], "ok") # {}
        /\ Len(calls[c].body.games) = 1

\* C10: when the metadata fetch of an application succeeds and its
\* player-count fetch throws (network error or unparsable reply), topGames
\* still lists the game, with playerCount 0, and details still answers 200,
\* with metrics.player_count 0.
PlayerCountDegradation ==
    \A c \in DOMAIN calls :
        FromUpstream(calls[c]) =>
            \A i \in DOMAIN calls[c].lookups :
                (calls[c].lookups[i].meta = "ok"
                    /\ calls[c].lookups[i].stats = "threw") =>
                    LET id == AppData(calls[c].lookups[i].appId).steam_appid
                    IN  /\ calls[c].status = 200
                        /\ calls[c].route = "topGames" =>
                              \E g \in DOMAIN calls[c].body.games :
                                  /\ calls[c].body.games[g].appid = id
                                  /\ calls[c].body.games[g].playerCount = 0
                        /\ calls[c].route = "details" =>
                              /\ calls[c].body.steam_appid = id
                              /\ calls[c].body.metrics.player_count = 0

\* Both routes have answered a request whose player-count fetch threw after
\* its metadata fetch had succeeded.
PlayerCountDegradationWitness ==
    /\ \E c \in TopGamesCalls :
          /\ FromUpstream(calls[c])
          /\ \E i \in DOMAIN calls[c].lookups :
                calls[c].lookups[i].meta = "ok"
                    /\ calls[c].lookups[i].stats = "threw"
    /\ \E c \in DOMAIN calls :
          /\ calls[c].route = "details" /\ FromUpstream(calls[c])
          /\ calls[c].lookups[1].meta = "ok"
          /\ calls[c].lookups[1].stats = "threw"

\* C11: a topGames handler that misses the cache dispatches the lookups of
\* all configured identifiers in one step, none waiting for another; the
\* response and the cache store happen only in a step that finds every one
\* of them settled, and a lookup that settles, with or without a failure,
\* neither answers the request nor writes the cache.
Dispatched ==
    \A c \in TopGamesCalls :
        calls[c].rounds = 1 =>
            /\ Len(calls[c].lookups) = Len(TOP_GAME_IDS)
            /\ calls[c].st = "done" =>
                  \A i \in DOMAIN calls[c].lookups :
                      calls[c].lookups[i].st = "settled"

Barrier ==
    \A c \in TopGamesCalls :
        /\ (calls[c].st = "auth" /\ calls'[c].st = "fetching") =>
              \A i \in DOMAIN TOP_GAME_IDS : calls'[c].lookups[i].st = "meta"
        /\ (calls[c].st = "fetching" /\ calls'[c].lookups # calls[c].lookups) =>
              /\ calls'[c].st = "fetching" /\ calls'[c].status = 0
              /\ STEAM_CACHE' = STEAM_CACHE
        /\ (calls[c].st = "fetching" /\ calls'[c].st = "done") =>
              /\ \A i \in DOMAIN calls[c].lookups :
                    calls[c].lookups[i].st = "settled"
              /\ calls'[c].status = 200

GatherBarrier == []Dispatched /\ [][Barrier]_vars

\* A topGames request was answered after one lookup had failed on its
\* metadata and the other had gone on to its player count.
GatherBarrierWitness ==
    \E c \in TopGamesCalls :
        /\ FromUpstream(calls[c])
        /\ Failed(calls[c]) # {} /\ Settled(calls[c], "ok") # {}
        /\ calls[c].lookups[1].meta # "ok"

\* C12 (as claimed): a topGames request for which the metadata lookup of
\* every configured identifier failed is answered with an error, not with a
\* games/studios result.
TotalFailure ==
    \A c \in TopGamesCalls :
        (FromUpstream(calls[c]) /\ Settled(calls[c], "ok") = {}) =>
            calls[c].status >= 500

----------------------------------------------------------------------------
(* Claims about the aggregation                                            *)

RECURSIVE SumCounts(_, _)
SumCounts(games, idx) ==
    IF idx = {} THEN 0
    ELSE LET g == CHOOSE x \in idx : TRUE
         IN  games[g].playerCount + SumCounts(games, idx \ {g})

\* The records of games whose developer list contains the name
Attributed(games, name) ==
    {g \in DOMAIN games : name \in Range(games[g].developers)}

RollupCounts(games, studios) ==
    /\ \A st \in DOMAIN studios :
          LET mine == Attributed(games, studios[st].name)
          IN  /\ studios[st].gamesCount = Cardinality(mine)
              /\ studios[st].totalPlayers = SumCounts(games, mine)
              /\ studios[st].gamesCount > 0
    /\ \A g \in DOMAIN games :
          \A dev \in Range(games[g].developers) :
              Cardinality({st \in DOMAIN studios : studios[st].name = dev}) = 1

\* C13 (as claimed): whatever records are aggregated, also ones that list
\* several developers or one developer twice, every studio's gamesCount is
\* the number of records whose developer list contains its name and its
\* totalPlayers the sum of their playerCount; every developer of every
\* record is exactly one studio, and no studio has gamesCount 0.
StudioRollupCounts ==
    gameResponse # <<>> =>
        RollupCounts(gameResponse[1].games, gameResponse[1].studios)

\* The first record, in the order of the list, among those attributed to the
\* name that have the greatest playerCount
FirstTop(games, name) ==
    CHOOSE g \in Attributed(games, name) :
        \A h \in Attributed(games, name) :
            \/ games[h].playerCount < games[g].playerCount
            \/ (games[h].playerCount = games[g].playerCount /\ g <= h)

\* C14: every studio's topGame is the name of the record with the greatest
\* playerCount among the records attributed to the studio, and of the first
\* of them in the order of iteration when several tie.
StudioTopGame ==
    gameResponse # <<>> =>
        LET games == gameResponse[1].games
            studios == gameResponse[1].studios
        IN  \A st \in DOMAIN studios :
                /\ Attributed(games, studios[st].name) # {}
                /\ studios[st].topGame =
                      games[FirstTop(games, studios[st].name)].name

\* A studio with two records tied for the greatest playerCount, the first
\* of which is its topGame.
StudioTopGameWitness ==
    /\ gameResponse # <<>>
    /\ \E st \in DOMAIN gameResponse[1].studios :
          LET games == gameResponse[1].games
              mine == Attributed(games, gameResponse[1].studios[st].name)
          IN  \E g, h \in mine :
                  /\ g < h
                  /\ games[g].playerCount = games[h].playerCount
                  /\ \A k \in mine :
                        games[k].playerCount <= games[g].playerCount
                  /\ gameResponse[1].studios[st].topGame = games[g].name
                  /\ games[g].name # games[h].name

Sorted(seq, key) ==
    \A i \in DOMAIN seq : i + 1 \in DOMAIN seq => seq[i][key] >= seq[i + 1][key]

Leaderboard(response) ==
    /\ Sorted(response.games, "playerCount")
    /\ {response.studios[st].name : st \in DOMAIN response.studios} =
          UNION {Range(response.games[g].developers) :
                    g \in DOMAIN response.games}
    /\ \A st \in DOMAIN response.studios :
          LET mine == Attributed(response.games, response.studios[st].name)
          IN  /\ response.studios[st].totalPlayers =
                    SumCounts(response.games, mine)
              /\ response.studios[st].topGame =
                    response.games[FirstTop(response.games,
                                            response.studios[st].name)].name

\* C15: in every result topGames returns or caches the games are in
\* non-increasing order of playerCount, and the studios are those of that
\* list: its developers, with the players and the top game of their records
\* in it.
LeaderboardOrder ==
    /\ \A c \in TopGamesCalls :
          (calls[c].st = "done" /\ calls[c].status = 200) =>
              Leaderboard(calls[c].body)
    /\ "top-games" \in DOMAIN STEAM_CACHE =>
          Leaderboard(STEAM_CACHE["top-games"].data)

\* The lookup listed first came back with fewer players than the second,
\* and the response, also the cached one, lists the second before it.
LeaderboardOrderWitness ==
    \E c \in TopGamesCalls :
        /\ FromUpstream(calls[c])
        /\ Len(calls[c].body.games) = 2
        /\ calls[c].lookups[1].result[1].playerCount
              < calls[c].lookups[2].result[1].playerCount
        /\ calls[c].body.games[1] = calls[c].lookups[2].result[1]
        /\ STEAM_CACHE["top-games"].data = calls[c].body

----------------------------------------------------------------------------
(* Claims about the single-item routes and the cache                       *)

\* Replies of an upstream source that are failures of the source, not
\* statements about the application: no connection, an unparsable body, an
\* HTTP 5xx.
Transient == {"networkError", "malformed", "serverError"}

Answered(c, route) ==
    calls[c].route = route /\ calls[c].st = "done" /\ calls[c].reply # "none"

\* C16 (as claimed): details answers 404 only when the store API reports the
\* application absent, and answers a 5xx, never 404, whenever the metadata
\* fetch fails transiently (network error, malformed reply, upstream 5xx).
DetailsFailureKinds ==
    \A c \in DOMAIN calls :
        Answered(c, "details") =>
            /\ calls[c].status = 404 => calls[c].reply \in {"absent", "unkeyed"}
            /\ calls[c].reply \in Transient => calls[c].status >= 500

\* C17 (as claimed): a search whose upstream call fails is answered with a
\* 5xx, and is always answered; a reply with zero matches gives 200 with an
\* empty list; what the cache serves for a term was stored by a request for
\* the same term.
SearchErrors ==
    \A c \in DOMAIN calls :
        /\ Answered(c, "search") =>
              /\ calls[c].status \in {200, 500}
              /\ calls[c].reply \in Transient => calls[c].status >= 500
              /\ calls[c].reply = "empty" =>
                    calls[c].status = 200 /\ calls[c].body = <<>>
        /\ (calls[c].route = "search" /\ calls[c].fromCache) =>
              \E d \in DOMAIN calls :
                  /\ calls[d].route = "search" /\ FromUpstream(calls[d])
                  /\ calls[d].param = calls[c].param
                  /\ calls[d].status = 200
                  /\ calls[d].body = calls[c].body

\* Some upstream fetch the response of the request is made of succeeded.
UpstreamSucceeded(call) ==
    IF call.route = "topGames"
    THEN \E i \in DOMAIN call.lookups : call.lookups[i].meta = "ok"
    ELSE IF call.route = "details" THEN call.reply = "ok"
    ELSE call.reply \in {"items", "empty", "noItems"}

CacheWriteStep ==
    /\ DOMAIN STEAM_CACHE \subseteq DOMAIN STEAM_CACHE'
    /\ STEAM_CACHE' # STEAM_CACHE =>
          \E c \in DOMAIN calls :
              /\ calls[c].st = "fetching" /\ calls'[c].st = "done"
              /\ calls'[c].status = 200 /\ UpstreamSucceeded(calls'[c])
              /\ \A k \in DOMAIN STEAM_CACHE :
                    k # CacheKey(calls[c].route, calls[c].param) =>
                        STEAM_CACHE'[k] = STEAM_CACHE[k]
    /\ \A c \in DOMAIN calls :
          (calls[c].st # "done" /\ calls'[c].st = "done"
              /\ (calls'[c].status # 200 \/ calls'[c].fromCache)) =>
              STEAM_CACHE' = STEAM_CACHE

\* C18 (as claimed): the cache is written only by a request whose upstream
\* fetch succeeded; a request that ends in an error or not-found answer, or
\* is served from the cache, leaves the map as it was; no entry is deleted.
CacheWritesOnSuccess == [][CacheWriteStep]_vars

----------------------------------------------------------------------------
(* Claims about the limiter: the window and retryAfter                     *)

\* The middleware handles a request of key k in this step.
Checks(k) ==
    nextReq' = nextReq + 1 /\ last'.fault = "none" /\ last'.key = k

\* The entry of k holds as many timestamps as the limiter handling the
\* request allows, and the earliest of them is windowMs old or older.
ExhaustedAndSlid(k) ==
    /\ rateLimitStore[k] # NoEntry
    /\ Len(rateLimitStore[k].requests) >= config[last'.lim].maxRequests
    /\ rateLimitStore[k].requests[1] <= now - config[last'.lim].windowMs

WindowSlideStep ==
    \A k \in Keys :
        (Checks(k) /\ ExhaustedAndSlid(k)) => last'.outcome = "allowed"

\* C19 (as claimed): a call for a key whose limit is exhausted and whose
\* earliest recorded timestamp is windowMs old or older is allowed.
WindowSlide == [][WindowSlideStep]_vars

\* C20: on every rejection retryAfter, as sent in the Retry-After header and
\* in the body, is not negative, and it is 0 only when the entry's resetTime
\* is the time of the rejection.
RetryAfterNonNegative ==
    last.outcome = "rejected" =>
        /\ last.status = 429
        /\ last.retryAfter >= 0
        /\ last.retryAfter = 0 => last.reset = last.t

\* A request rejected at the very millisecond its entry's window ends.
RetryAfterNonNegativeWitness ==
    /\ last.outcome = "rejected"
    /\ last.retryAfter = 0
    /\ last.reset = last.t /\ last.t > 0

\* The earliest timestamp an entry holds.
Earliest(entry) ==
    CHOOSE t \in Range(entry.requests) : \A u \in Range(entry.requests) : t <= u

\* The middleware rejects a request of key k in this step; the entry it
\* leaves in the store is the pruned one the decision was made on.
Rejects(k) == Checks(k) /\ last'.outcome = "rejected"

RetryAfterEarliestStep ==
    \A k \in Keys :
        Rejects(k) =>
            last'.retryAfter =
                Ceil(Earliest(rateLimitStore'[k]) + config[last'.lim].windowMs - now,
                     1000)

\* C21 (as claimed): on every rejection retryAfter is the time, rounded up to
\* whole seconds, until the earliest timestamp remaining in the key's window
\* expires: ceil((earliestRemaining + windowMs - now) / 1000).
RetryAfterEarliest == [][RetryAfterEarliestStep]_vars

----------------------------------------------------------------------------
(* Claims about the limiter: the remaining quota                           *)

\* What the X-RateLimit-Remaining header says: on an accepted request the
\* quota less the timestamps of the entry, the new one included, and 0 on
\* a rejected one.
RemainingQuota ==
    Decided =>
        /\ last.outcome = "allowed" =>
              /\ last.remaining = config[last.lim].maxRequests - (last.prior + 1)
              /\ last.remaining >= 0
        /\ last.outcome = "rejected" => last.remaining = 0

\* The times of the requests of key k counted so far.
LogTimes(k) == [i \in DOMAIN log[k] |-> log[k][i].t]

\* The limiter of the example, and a request of key k it decides in this
\* step after the counted requests `before`, at time t.
ExampleCall(k, before, t) ==
    /\ config["custom"].windowMs = 60000 /\ config["custom"].maxRequests = 3
    /\ Checks(k)
    /\ LogTimes(k) = before /\ now = t
    /\ \A i \in DOMAIN log[k] : log[k][i].outcome = "allowed"

QuotaExampleStep ==
    \A k \in Keys :
        /\ ExampleCall(k, <<>>, 0) =>
              last'.outcome = "allowed" /\ last'.remaining = 2
        /\ ExampleCall(k, <<0>>, 1000) =>
              last'.outcome = "allowed" /\ last'.remaining = 1
        /\ ExampleCall(k, <<0, 1000>>, 2000) =>
              last'.outcome = "allowed" /\ last'.remaining = 0
        /\ ExampleCall(k, <<0, 1000, 2000>>, 3000) =>
              /\ last'.outcome = "rejected"
              /\ last'.remaining = 0 /\ last'.retryAfter = 57
        /\ ExampleCall(k, <<0, 1000, 2000>>, 61000) =>
              last'.outcome = "allowed"

----------------------------------------------------------------------------
(* Claims about the limiter: the periodic sweep                            *)

\* The cleanup timer runs in this step.
Sweeps == lastSweep' # lastSweep

\* The entry holds a timestamp newer than t - windowMs.
HoldsFresh(entry, t, windowMs) ==
    \E i \in DOMAIN entry.requests : entry.requests[i] > t - windowMs

\* The window of the entry has fully elapsed at t with no new request: its
\* expiry time has passed and no timestamp of the last windowMs is in it.
Elapsed(entry, t, windowMs) ==
    entry.resetTime < t /\ ~HoldsFresh(entry, t, windowMs)

SweepStep ==
    Sweeps =>
        \A k \in Keys :
            rateLimitStore[k] # NoEntry =>
                /\ rateLimitStore'[k] \in {NoEntry, rateLimitStore[k]}
                /\ rateLimitStore'[k] = NoEntry <=>
                      Elapsed(rateLimitStore[k], now, config["custom"].windowMs)

\* C23 (as claimed): with one limiter instance, a run of the sweep deletes
\* the entry of a key exactly when the key's window has fully elapsed with
\* no new request: no elapsed entry is left in the store, and no entry that
\* holds a timestamp newer than now - windowMs is deleted.
SweepDeletesElapsed == [][SweepStep]_vars

----------------------------------------------------------------------------
(* Claims about the fan-out: termination                                   *)

\* Request c is a topGames request waiting on its upstream fetches.
Fanning(c) ==
    c \in DOMAIN calls /\ calls[c].route = "topGames" /\ calls[c].st = "fetching"

\* Every upstream fetch request c has issued has settled: no lookup waits
\* for its metadata or its player count.
FetchesSettled(c) ==
    /\ c \in DOMAIN calls
    /\ \A i \in DOMAIN calls[c].lookups : calls[c].lookups[i].st = "settled"

Responded(c) == c \in DOMAIN calls /\ calls[c].st = "done"

\* A response is sent once: what a request has answered does not change.
\* A request waiting on its fetches leaves the wait only by responding, a
\* fetch that has settled stays settled, and no response is sent while a
\* fetch of the request is unsettled.
OneResponseStep ==
    \A c \in DOMAIN calls :
        /\ Responded(c) => calls'[c] = calls[c]
        /\ Fanning(c) =>
              /\ calls'[c].st \in {"fetching", "done"}
              /\ \A i \in DOMAIN calls[c].lookups :
                    calls[c].lookups[i].st = "settled" =>
                        calls'[c].lookups[i] = calls[c].lookups[i]
        /\ (Fanning(c) /\ ~FetchesSettled(c)) =>
              (calls'[c].st = "fetching" /\ calls'[c].status = 0)

\* C24: a topGames request all of whose upstream fetches eventually settle,
\* by success or by failure, eventually sends a response, and sends one
\* only; while a fetch of it is unsettled it sends none, however much time
\* passes.  A request leaves the wait only by responding and settled
\* fetches stay settled (OneResponseStep), so a request whose fetches all
\* eventually settle reaches a state where it has responded or where it
\* waits with every fetch settled; the first conjunct says that from the
\* latter it responds.
FanoutTerminates ==
    /\ \A c \in 1..MaxCalls :
          (Fanning(c) /\ FetchesSettled(c)) ~> Responded(c)
    /\ [][OneResponseStep]_vars

\* A request has answered after a fetch of it failed, and the clock has run
\* to its end while another request still waits on an unsettled fetch.
FanoutTerminatesWitness ==
    /\ now = MaxProxyTicks * ProxyTickMs
    /\ \E c \in TopGamesCalls :
          /\ Responded(c) /\ FromUpstream(calls[c])
          /\ Settled(calls[c], "threw") # {}
    /\ \E c \in TopGamesCalls :
          /\ Fanning(c) /\ ~FetchesSettled(c)
          /\ calls[c].startedAt = 0

----------------------------------------------------------------------------
(* The leads routes: routes.ts:18-66 (registration with isAuthenticated),  *)
(* routes.ts:328-423 (registration with requireAuth) and the serverless    *)
(* handler of /api/leads/[id] (api/webhooks/clerk.ts:142-215), over the    *)
(* leads table of storage.ts.                                              *)

MaxLeadCalls == 2      \* requests that reach the leads routes in one behaviour

Editions == {"legacy", "clerk", "serverless"}

Users == {"u1", "u2"}

LeadIds == {1, 2}

LeadMethods == {"LIST", "GET", "PUT", "DELETE"}

\* A key the request body does not carry
NoKey == "-"

\* Bodies of a PUT: a new name, with or without a userId key
LeadBodies == [name : {"b"}, userId : Users \cup {NoKey}]

NoInput == [name |-> NoKey, userId |-> NoKey]

\* The rows the table can hold when the process starts
LeadRows == {[userId |-> u, name |-> "a"] : u \in Users}

LeadTables == [LeadIds -> {Null} \cup {<<row>> : row \in LeadRows}]

\* What reaches storage.updateLead: api.leads.update.input.parse(req.body)
\* (insertLeadSchema.partial(), which has no userId key and strips unknown
\* keys) in routes.ts:48 and 388; req.body itself in the serverless handler
\* (api/webhooks/clerk.ts:188).
UpdateInput(ed, body) ==
    IF ed = "serverless" THEN body ELSE [body EXCEPT !.userId = NoKey]

\* db.update(leads).set({ ...updates, updatedAt }) on one row (storage.ts:91-98)
SetRow(row, updates) ==
    [userId |-> IF updates.userId = NoKey THEN row.userId ELSE updates.userId,
     name |-> IF updates.name = NoKey THEN row.name ELSE updates.name]

\* db.select().from(leads).where(eq(leads.userId, userId)) (storage.ts:77-79)
GetLeads(table, userId) ==
    {[id |-> id, row |-> table[id][1]] :
        id \in {i \in LeadIds : Len(table[i]) > 0 /\ table[i][1].userId = userId}}

\* A request of an authenticated user (req.auth.userId / req.user.claims.sub
\* is `user`), its handler waiting for its first storage call.
NewLeadCall(method, user, id, body) ==
    [method |-> method, user |-> user, id |-> id, body |-> body,
     st |-> "start", status |-> 0, row |-> Null, list |-> {}]

LeadAnswer(call, status, row) ==
    [call EXCEPT !.st = "done", !.status = status, !.row = row]

\* if (lead.userId !== req.auth!.userId) return res.status(403)
\* (routes.ts:345, 384, 413; api/webhooks/clerk.ts:170, 184, 199); the
\* registration of routes.ts:18-66 has no such test.
OwnershipChecked(ed) == ed # "legacy"

LeadRequest(method, user, id, body) ==
    /\ Len(leadCalls) < MaxLeadCalls
    /\ leadCalls' = Append(leadCalls, NewLeadCall(method, user, id, body))
    /\ UNCHANGED <<edition, leads, notLeadVars>>

\* The first storage call of request c resolves and the handler runs on to
\* its response or to its next await.
LeadLookup(c) ==
    LET call == leadCalls[c]
        row == leads[call.id]
        found == Len(row) > 0
        direct == ~OwnershipChecked(edition)
    IN  /\ c \in DOMAIN leadCalls /\ call.st = "start"
        /\ IF call.method = "LIST"
           THEN /\ leadCalls' = [leadCalls EXCEPT ![c] =
                       [LeadAnswer(@, 200, Null) EXCEPT
                           !.list = GetLeads(leads, call.user)]]
                /\ UNCHANGED leads
           ELSE IF direct /\ call.method = "PUT"
           THEN \* routes.ts:46-51: updateLead at once
                IF found
                THEN LET updated == SetRow(row[1], UpdateInput(edition, call.body))
                     IN  /\ leads' = [leads EXCEPT ![call.id] = <<updated>>]
                         /\ leadCalls' = [leadCalls EXCEPT ![c] =
                                LeadAnswer(@, 200, <<updated>>)]
                ELSE /\ leadCalls' = [leadCalls EXCEPT ![c] =
                            LeadAnswer(@, 404, Null)]
                     /\ UNCHANGED leads
           ELSE IF direct /\ call.method = "DELETE"
           THEN \* routes.ts:63-66: deleteLead at once
                /\ leads' = [leads EXCEPT ![call.id] = Null]
                /\ leadCalls' = [leadCalls EXCEPT ![c] = LeadAnswer(@, 204, Null)]
           ELSE \* getLead resolved
                /\ leadCalls' = [leadCalls EXCEPT ![c] =
                       IF ~found THEN LeadAnswer(@, 404, Null)
                       ELSE IF ~direct /\ row[1].userId # call.user
                       THEN LeadAnswer(@, 403, Null)
                       ELSE IF call.method = "GET" THEN LeadAnswer(@, 200, row)
                       ELSE [@ EXCEPT !.st = "write"]]
                /\ UNCHANGED leads
        /\ UNCHANGED <<edition, notLeadVars>>

\* updateLead / deleteLead of a request that passed the ownership test
\* resolves (routes.ts:389-390, 417-418; api/webhooks/clerk.ts:188-189,
\* 203-204).  An update of a row that is gone returns undefined, which the
\* handler sends with status 200.
LeadWrite(c) ==
    LET call == leadCalls[c]
        row == leads[call.id]
        found == Len(row) > 0
    IN  /\ c \in DOMAIN leadCalls /\ call.st = "write"
        /\ IF call.method = "PUT"
           THEN IF found
                THEN LET updated == SetRow(row[1], UpdateInput(edition, call.body))
                     IN  /\ leads' = [leads EXCEPT ![call.id] = <<updated>>]
                         /\ leadCalls' = [leadCalls EXCEPT ![c] =
                                LeadAnswer(@, 200, <<updated>>)]
                ELSE /\ leadCalls' = [leadCalls EXCEPT ![c] =
                            LeadAnswer(@, 200, Null)]
                     /\ UNCHANGED leads
           ELSE /\ leads' = [leads EXCEPT ![call.id] = Null]
                /\ leadCalls' = [leadCalls EXCEPT ![c] = LeadAnswer(@, 204, Null)]
        /\ UNCHANGED <<edition, notLeadVars>>

LeadsNext ==
    \/ \E method \in LeadMethods, user \in Users, id \in LeadIds :
          \E body \in IF method = "PUT" THEN LeadBodies ELSE {NoInput} :
              LeadRequest(method, user, id, body)
    \/ \E c \in 1..MaxLeadCalls : LeadLookup(c)
    \/ \E c \in 1..MaxLeadCalls : LeadWrite(c)

\* A process with one registration of the leads routes over a table that
\* holds leads of any owners.
LeadsInit ==
    /\ config = <<>> /\ LimiterInit
    /\ gameResults = <<>> /\ gameResponse = <<>>
    /\ Quiet("leads")
    /\ edition \in Editions
    /\ leads \in LeadTables
    /\ leadCalls = <<>>

SpecLeads == LeadsInit /\ [][LeadsNext]_vars

----------------------------------------------------------------------------
(* Claims about the leads routes                                           *)

\* The lead a request names is in the table and belongs to the requester.
Owns(call) ==
    Len(leads[call.id]) > 0 /\ leads[call.id][1].userId = call.user

LeadIsolationStep ==
    \A c \in DOMAIN leadCalls :
        LET call == leadCalls[c]
            after == leadCalls'[c]
        IN  after # call =>
                /\ leads' # leads => Owns(call)
                /\ (call.method # "LIST" /\ Len(after.row) > 0) => Owns(call)
                /\ (call.method # "LIST" /\ call.st = "start" /\ ~Owns(call)) =>
                      /\ after.st = "done"
                      /\ after.status =
                            IF Len(leads[call.id]) = 0 THEN 404 ELSE 403
                      /\ leads' = leads
                /\ after.status \in {403, 404} => leads' = leads
                /\ \A l \in after.list : l.row.userId = call.user

\* C25 (as claimed): a GET, PUT or DELETE of a lead by id returns, changes
\* or deletes the lead only if its userId is the requester's; a request for
\* a lead of another user is answered 403, one for a lead that does not
\* exist 404, and both leave the table unchanged; a listing returns only
\* the requester's leads.
LeadIsolation == [][LeadIsolationStep]_vars

----------------------------------------------------------------------------
(* The Clerk webhook: the Express route (routes.ts:298-325) and the        *)
(* serverless function (api/webhooks/clerk.ts:15-95), over the users table *)

MaxHooks == 2          \* webhook requests in one behaviour

\* Where a webhook request is served
HookEndpoints == {"express", "function"}

\* The svix headers of a request: absent; present with a signature that
\* does not verify; present with a signature that verifies against the
\* text the handler hands to verify(), JSON.stringify(req.body); present
\* with a signature of the sender's raw bytes, which that text differs from.
Signatures == {"missing", "forged", "signed", "signedRaw"}

EventTypes == {"user.created", "user.updated", "user.deleted", "session.created"}

Emails == {"a@x", "b@x"}

UserTables == [Users -> {Null} \cup {<<[email |-> e]>> : e \in Emails}]

\* webhook.verify(body, headers): returns the event or throws
\* (api/webhooks/clerk.ts:36-43)
Verifies(sig) == sig = "signed"

\* if (!svixId || !svixTimestamp || !svixSignature)
HeadersMissing(sig) == sig = "missing"

NewHook(via, sig, type, id, email) ==
    [via |-> via, sig |-> sig, type |-> type, id |-> id, email |-> email,
     st |-> "new", status |-> 0, verified |-> FALSE]

HookAnswer(hook, status) == [hook EXCEPT !.st = "done", !.status = status]

Upserts(type) == type \in {"user.created", "user.updated"}

\* The synchronous part of the function: lines 16-47.  (Every request is a
\* POST here.)
FunctionStart(hook, secret) ==
    IF ~secret THEN HookAnswer(hook, 500)
    ELSE IF HeadersMissing(hook.sig) THEN HookAnswer(hook, 400)
    ELSE IF ~Verifies(hook.sig) THEN HookAnswer(hook, 400)
    ELSE IF Upserts(hook.type) \/ hook.type = "user.deleted"
    THEN [hook EXCEPT !.st = "db", !.verified = TRUE]
    ELSE HookAnswer([hook EXCEPT !.verified = TRUE], 200)

\* The synchronous part of the Express route: routes.ts:300-318.  The route
\* is registered with no middleware before the handler.
ExpressStart(hook) ==
    IF Upserts(hook.type) THEN [hook EXCEPT !.st = "db"]
    ELSE HookAnswer(hook, 200)

\* A webhook request arrives and its handler runs to its first await.
HookArrive(via, sig, type, id, email) ==
    /\ Len(hooks) < MaxHooks
    /\ hooks' = Append(hooks,
                       IF via = "function"
                       THEN FunctionStart(NewHook(via, sig, type, id, email),
                                          secretSet)
                       ELSE ExpressStart(NewHook(via, sig, type, id, email)))
    /\ UNCHANGED <<secretSet, users, notHookVars>>

\* The statement the handler awaits completes or fails: upsertUser
\* (routes.ts:306-312), insert ... onConflictDoUpdate or delete
\* (api/webhooks/clerk.ts:52-69, 78).
HookStore(h, ok) ==
    LET hook == hooks[h]
    IN  /\ h \in DOMAIN hooks /\ hook.st = "db"
        /\ IF ok
           THEN /\ users' = [users EXCEPT ![hook.id] =
                                IF Upserts(hook.type)
                                THEN <<[email |-> hook.email]>> ELSE Null]
                /\ hooks' = [hooks EXCEPT ![h] = HookAnswer(@, 200)]
           ELSE /\ hooks' = [hooks EXCEPT ![h] =
                       HookAnswer(@, IF hook.via = "function" THEN 400 ELSE 500)]
                /\ UNCHANGED users
        /\ UNCHANGED <<secretSet, notHookVars>>

HooksNext ==
    \/ \E via \in HookEndpoints, sig \in Signatures, type \in EventTypes,
          id \in Users, email \in Emails :
          HookArrive(via, sig, type, id, email)
    \/ \E h \in 1..MaxHooks, ok \in BOOLEAN : HookStore(h, ok)

HooksInit ==
    /\ config = <<>> /\ LimiterInit
    /\ gameResults = <<>> /\ gameResponse = <<>>
    /\ Quiet("hooks")
    /\ secretSet \in BOOLEAN
    /\ users \in UserTables
    /\ hooks = <<>>

SpecHooks == HooksInit /\ [][HooksNext]_vars

----------------------------------------------------------------------------
(* Claims about the webhook                                                *)

WebhookStep ==
    /\ users' # users =>
          \E h \in DOMAIN hooks :
              /\ hooks'[h] # hooks[h]
              /\ hooks[h].verified /\ Verifies(hooks[h].sig)
    /\ \A h \in DOMAIN hooks' :
          (hooks'[h].st = "done" /\ ~Verifies(hooks'[h].sig)) =>
              hooks'[h].status >= 400

\* C26 (as claimed): a webhook request changes the users table only after
\* its svix signature has been verified; a request with missing svix headers
\* or a signature that does not verify gets an error status and leaves the
\* table as it was.
WebhookAuthenticity == [][WebhookStep]_vars

----------------------------------------------------------------------------
(* The analytics manager of the client (client/src/lib/analytics.ts)       *)

MaxEvents == 3         \* events queued or sent in one behaviour

EventNames == {"click", "page_view"}

\* One event leaving the browser: where it went, what the user's choice
\* was at that moment, and whether it had waited in the queue.
Sending(name, toGA4, toEndpoint, chosen, queued) ==
    [name |-> name, ga4 |-> toGA4, endpoint |-> toEndpoint,
     choice |-> chosen, queued |-> queued]

\* trackEvent of an initialized manager (analytics.ts:92-108): what leaves
\* the browser.
TrackEventSends(name, consentGiven, hasGtag, chosen, queued) ==
    IF ~consentGiven THEN <<>>
    ELSE <<Sending(name, hasGtag, TRUE, chosen, queued)>>

\* trackPageView of an initialized manager (analytics.ts:123-132)
TrackPageViewSends(consentGiven, hasGtag, chosen, queued) ==
    IF hasGtag /\ consentGiven
    THEN <<Sending("page_view", TRUE, FALSE, chosen, queued)>>
    ELSE <<>>

\* processQueue (analytics.ts:266-277), run by init once initialized is set
RECURSIVE ProcessQueue(_, _, _, _)
ProcessQueue(queue, consentGiven, hasGtag, chosen) ==
    IF queue = <<>> THEN <<>>
    ELSE (IF Head(queue) = "page_view"
          THEN TrackPageViewSends(consentGiven, hasGtag, chosen, TRUE)
          ELSE TrackEventSends(Head(queue), consentGiven, hasGtag, chosen, TRUE))
         \o ProcessQueue(Tail(queue), consentGiven, hasGtag, chosen)

\* init(consentGiven)  (analytics.ts:45-63).  The first call states the
\* user's analytics consent; a later call returns at once.
init(consentGiven) ==
    /\ ~analytics.initialized
    /\ LET loaded == consentGiven /\ measurementId
           chosen == [choice EXCEPT !.analytics = consentGiven]
       IN  /\ analytics' = [initialized |-> TRUE, consentGiven |-> consentGiven,
                            queue |-> <<>>]
           /\ gtag' = (gtag \/ loaded)
           /\ choice' = chosen
           /\ sent' = sent \o ProcessQueue(analytics.queue, consentGiven,
                                           gtag \/ loaded, chosen)
    /\ UNCHANGED <<measurementId, notAnalyticsVars>>

\* updateConsent(analytics, marketing)  (analytics.ts:68-81)
updateConsent(forAnalytics, forMarketing) ==
    /\ analytics' = [analytics EXCEPT !.consentGiven = forAnalytics \/ forMarketing]
    /\ choice' = [analytics |-> forAnalytics, marketing |-> forMarketing]
    /\ UNCHANGED <<gtag, measurementId, sent, notAnalyticsVars>>

\* trackEvent(event)  (analytics.ts:86-109)
trackEvent(name) ==
    /\ Len(analytics.queue) + Len(sent) < MaxEvents
    /\ IF ~analytics.initialized
       THEN /\ analytics' = [analytics EXCEPT !.queue = Append(@, name)]
            /\ UNCHANGED sent
       ELSE /\ sent' = sent \o TrackEventSends(name, analytics.consentGiven,
                                               gtag, choice, FALSE)
            /\ UNCHANGED analytics
    /\ UNCHANGED <<gtag, measurementId, choice, notAnalyticsVars>>

AnalyticsNext ==
    \/ \E consentGiven \in BOOLEAN : init(consentGiven)
    \/ \E forAnalytics \in BOOLEAN, forMarketing \in BOOLEAN :
          updateConsent(forAnalytics, forMarketing)
    \/ \E name \in EventNames : trackEvent(name)

AnalyticsInit ==
    /\ config = <<>> /\ LimiterInit
    /\ gameResults = <<>> /\ gameResponse = <<>>
    /\ Quiet("analytics")
    /\ analytics = NewManager
    /\ gtag = FALSE
    /\ measurementId \in BOOLEAN
    /\ choice = NoChoice
    /\ sent = <<>>

SpecAnalytics == AnalyticsInit /\ [][AnalyticsNext]_vars

----------------------------------------------------------------------------
(* Claims about analytics consent                                          *)

\* C27 (as claimed): an event passed to trackEvent leaves the browser, to
\* GA4 or to the custom endpoint, only while the user's analytics consent
\* is granted, whatever the marketing consent; this holds for the events
\* that waited in the queue as well.
AnalyticsConsent == \A i \in DOMAIN sent : sent[i].choice.analytics

----------------------------------------------------------------------------
(* The serverless adapter (api/index.ts:86-126)                            *)

MaxInvocations == 3    \* invocations of the handler in one behaviour

\* The paths requests come for: one that registerRoutes mounts a route for
\* and one that it does not.
Paths == {"/api/leads", "/favicon.ico"}

\* What registerRoutes (routes.ts:268-627, imported as routes-clerk) mounts,
\* and what ensureRoutes mounts after it.
RouteSet == "routes"
ErrorHandler == "errorHandler"

Mounted(layers, what) == Cardinality({i \in DOMAIN layers : layers[i] = what})

\* handler(req, res) is called: ensureRoutes reads the flag and, if it is
\* not set, calls registerRoutes, whose body mounts the routes and returns
\* a promise; the invocation is suspended at the await of line 91, or at
\* the await of line 110 if the flag is set.
Invoke(path) ==
    /\ Len(invocations) < MaxInvocations
    /\ IF ~routesRegistered
       THEN /\ stack' = Append(stack, RouteSet)
            /\ invocations' = Append(invocations,
                   [path |-> path, st |-> "registering", complete |-> FALSE,
                    matches |-> 0])
       ELSE /\ UNCHANGED stack
            /\ invocations' = Append(invocations,
                   [path |-> path, st |-> "ensured", complete |-> FALSE,
                    matches |-> 0])
    /\ UNCHANGED <<routesRegistered, notAdapterVars>>

\* ensureRoutes resumes after await registerRoutes(...): lines 93-102
Registered(i) ==
    /\ i \in DOMAIN invocations /\ invocations[i].st = "registering"
    /\ stack' = Append(stack, ErrorHandler)
    /\ routesRegistered' = TRUE
    /\ invocations' = [invocations EXCEPT ![i].st = "ensured"]
    /\ UNCHANGED notAdapterVars

\* handler resumes after await ensureRoutes(): app(req, res, next), lines
\* 113-121.  The invocation keeps whether registration had completed and
\* how many mounted route sets the request matches.
Dispatch(i) ==
    /\ i \in DOMAIN invocations /\ invocations[i].st = "ensured"
    /\ invocations' = [invocations EXCEPT
          ![i].st = "dispatched",
          ![i].complete = routesRegistered /\ Mounted(stack, ErrorHandler) > 0,
          ![i].matches = IF invocations[i].path = "/api/leads"
                         THEN Mounted(stack, RouteSet) ELSE 0]
    /\ UNCHANGED <<routesRegistered, stack, notAdapterVars>>

AdapterNext ==
    \/ \E path \in Paths : Invoke(path)
    \/ \E i \in 1..MaxInvocations : Registered(i)
    \/ \E i \in 1..MaxInvocations : Dispatch(i)

AdapterInit ==
    /\ config = <<>> /\ LimiterInit
    /\ gameResults = <<>> /\ gameResponse = <<>>
    /\ Quiet("adapter")
    /\ routesRegistered = FALSE
    /\ stack = <<>>
    /\ invocations = <<>>

SpecAdapter == AdapterInit /\ [][AdapterNext]_vars

----------------------------------------------------------------------------
(* Claims about the serverless adapter                                     *)

\* C28 (as claimed): however the invocations of the handler interleave, the
\* routes and the global error handler are mounted at most once, exactly
\* once as soon as an invocation has passed ensureRoutes, and a request is
\* dispatched to the Express app only after registration has completed.
RegisteredOnce ==
    /\ Mounted(stack, RouteSet) <= 1
    /\ Mounted(stack, ErrorHandler) <= 1
    /\ \A i \in DOMAIN invocations :
          /\ invocations[i].st \in {"ensured", "dispatched"} =>
                stack = <<RouteSet, ErrorHandler>>
          /\ invocations[i].st = "dispatched" => invocations[i].complete

----------------------------------------------------------------------------
(* Claims about the limiter: the caller that waits for Retry-After         *)

\* The request before this one was a request of key k that was rejected,
\* and the time it was told to wait has run out.
WaitedRetryAfter(k) ==
    /\ last.outcome = "rejected" /\ last.key = k
    /\ now >= last.t + 1000 * last.retryAfter

RetryAfterHonouredStep ==
    \A k \in Keys :
        (Checks(k) /\ WaitedRetryAfter(k)) => last'.outcome = "allowed"

\* C29 (as claimed): when a request of a key is rejected at time t with
\* retryAfter = r seconds, the key's next request, made at t + 1000 * r or
\* later, is allowed, whatever the limiter's skip flags.
RetryAfterHonoured == [][RetryAfterHonouredStep]_vars

----------------------------------------------------------------------------
(* The limiter next to a limiter whose cleanup timer never runs: both      *)
(* processes get the same requests and responses at the same instants.     *)

\* The second process after module load.
UnsweptStart ==
    [store |-> [k \in Keys |-> NoEntry], nextEntry |-> 1,
     reqs |-> [r \in ReqIds |-> NoRequest], last |-> NoCall, missing |-> FALSE]

\* A request reaches the middleware of both processes.  `missing` keeps
\* whether the timer had deleted an entry the second process still holds.
BothCheckAndRecord(l, k, fault) ==
    LET served == Serve(unswept.store, unswept.nextEntry, unswept.reqs,
                        nextReq, l, k, fault)
    IN  /\ Middleware(l, k, fault)
        /\ unswept' = [store |-> served.store, nextEntry |-> served.nextEntry,
                       reqs |-> served.reqs, last |-> served.last,
                       missing |-> /\ fault # "keyGenerator"
                                   /\ rateLimitStore[k] = NoEntry
                                   /\ unswept.store[k] # NoEntry]
        /\ UNCHANGED <<proxyVars, rollupVars, restVars>>

\* The downstream handlers of both processes call res.json with the same
\* status code.
BothRespond(r, code) ==
    LET answered == ResJson(unswept.store, unswept.reqs, r, code)
    IN  /\ JsonCalled(r, code)
        /\ unswept' = IF unswept.reqs[r].st = "inflight"
                      THEN [unswept EXCEPT !.store = answered.store,
                                           !.reqs = answered.reqs]
                      ELSE unswept
        /\ UNCHANGED <<proxyVars, rollupVars, restVars>>

\* The timer runs in the first process only.
UnsweptNext ==
    \/ Tick
    \/ \E l \in DOMAIN config, k \in Keys, fault \in Faults :
           BothCheckAndRecord(l, k, fault)
    \/ \E r \in ReqIds, code \in StatusCodes : BothRespond(r, code)
    \/ Sweep

UnsweptInit ==
    /\ config \in SingleLimiter /\ LimiterInit
    /\ gameResults = <<>> /\ gameResponse = <<>>
    /\ Quiet("unswept")
    /\ unswept = UnsweptStart

SpecUnswept == UnsweptInit /\ [][UnsweptNext]_vars

----------------------------------------------------------------------------
(* Claims about the limiter: the sweep is not observable                   *)

\* What a caller sees of a request: the decision, the status, the headers
\* and retryAfter.
Seen(call) ==
    [outcome |-> call.outcome, status |-> call.status,
     nextCalls |-> call.nextCalls, remaining |-> call.remaining,
     reset |-> call.reset, retryAfter |-> call.retryAfter]

\* C30: wherever the runs of the cleanup timer fall between the requests,
\* each request gets the decision, the remaining value, the reset time and
\* the retryAfter it gets in the process that never sweeps.
SweepTransparent == Seen(last) = Seen(unswept.last)

\* A request that found no entry because the timer had deleted it, while
\* the log still holds a counted request of the key inside the window.
SweepTransparentWitness ==
    /\ unswept.missing
    /\ lastSweep >= 0 /\ last.t >= lastSweep
    /\ last.outcome = "allowed"
    /\ last.priorLog > 0

====
